---- MODULE Spec2Model ----
(***************************************************************************)
(* State machine of the ALVAR marker-detector wrapper (ALVARWrapper1.5,    *)
(* MarkerDetectorWrapper.cpp): the process-wide session state and one     *)
(* action per exported entry point.  The vision engine (ALVAR / OpenCV)   *)
(* is the environment: the result of a detection, of a file parse or of a *)
(* file save is an input chosen by the action.                            *)
(***************************************************************************)
EXTENDS Integers, Sequences, FiniteSets, TLC

\* ------------------------------------------------------------------ bounds
MaxMarkers == 2     \* most markers one detector holds after a detection
MaxReq == 2         \* longest requested-id list enumerated in full
MaxBundles == 2     \* most bundles registered in multiMarkers
MaxObs == 2         \* most chessboard observations accumulated in pp

\* ------------------------------------------------------------------ inputs
DetIds == {3, 7}            \* marker ids visible in the frames considered
ReqIds == {3, 7, 9}         \* marker ids a caller may ask for (9 is never visible)
Widths == {320, 640}
Heights == {240}
CalibFiles == {"NULL", "good.xml", "bad.xml"}    \* bad.xml does not parse
TrackErrors == {1, 2}       \* maxTrackError values (abstract)
DetectorIds == {0, 1}       \* arguments of alvar_select_detector
AnyDetectorIds == {-1, 0, 1, 2}     \* the same, with indices that name no detector
TexSizes == {1}             \* hide texture edge length in pixels
TexChannels == {3, 4}
TexSizesOfPixels == {1, 2}  \* the same, with a texture of more than one pixel
AnyTexChannels == {1, 2, 3, 4, 5}   \* channel counts cvCreateImage takes
BundleMembers == {<<3>>, <<7, 9>>}
BundleFiles == {"b.xml", "b.txt"}
Garbage == -1               \* a value read outside a vector's bounds
MarkerSizes == {10, 20}     \* marker edge lengths (abstract units)
MarkerResolutions == {5}
MarkerMargins == {2}
SizedIds == {3, 7}          \* ids given a size of their own

RECURSIVE SeqsUpTo(_, _)
SeqsUpTo(S, n) ==
    IF n = 0 THEN {<<>>}
    ELSE LET shorter == SeqsUpTo(S, n - 1)
         IN shorter \cup {Append(s, x) : s \in {t \in shorter : Len(t) = n - 1}, x \in S}

Detections == SeqsUpTo(DetIds, MaxMarkers)
\* every request up to MaxReq ids, and the request <<7, 3, 9>> of the documented example
Requests == SeqsUpTo(ReqIds, MaxReq) \cup {<<7, 3, 9>>}

Range(s) == {s[i] : i \in 1..Len(s)}

NoProj == <<"none">>

\* ------------------------------------------------------------------- state
VARIABLES
    cam,                 \* Camera cam: [calib, x_res, y_res]
    cam_width,
    cam_height,
    markerDetector,      \* MarkerDetector: [markers: sequence of detected marker ids,
                         \*   geometry: the SetMarkerSize arguments,
                         \*   map_edge_length: marker id -> size set for that id]
    markerDetector2,
    multiMarkers,        \* vector<MultiMarker>: sequence of [ids, loaded]
    hide_texture_size,
    channels,
    idTable,             \* map<int,int>: marker id -> 0-based index
    foundMarkers,        \* vector<int>: 0-based indices into the marker list
    detect_additional,
    curMaxTrackError,
    detector_id,
    pp,                  \* ProjPoints pp: number of accumulated observations
    calibration_started,
    calibFileOut,        \* the calibration output file: [content, stamp], the stamp
                         \* changing at every write
    addedSinceInit,      \* history: an observation was added since the last alvar_init_camera
    lastProj,            \* history: projection matrix of the last alvar_get_camera_params
                         \* since the last alvar_init_camera
    lastProjCal,         \* history: same, also forgotten when a calibration is computed
    detectTrackError,    \* history: maxTrackError of the most recent alvar_detect_marker
    wrapper13,           \* the session of the single-detector wrapper (1.3) given the same
                         \* calls, for the hosts that run the two wrappers side by side
    out                  \* the last call: its name, inputs, return value and output buffers

vars == <<cam, cam_width, cam_height, markerDetector, markerDetector2, multiMarkers,
          hide_texture_size, channels, idTable, foundMarkers, detect_additional,
          curMaxTrackError, detector_id, pp, calibration_started, calibFileOut,
          addedSinceInit, lastProj, lastProjCal, detectTrackError, wrapper13, out>>

camVars == <<cam, cam_width, cam_height>>
detVars == <<markerDetector, markerDetector2, idTable, foundMarkers, curMaxTrackError>>
texVars == <<hide_texture_size, channels>>
calVars == <<pp, calibration_started, calibFileOut>>
histVars == <<addedSinceInit, lastProj, lastProjCal, detectTrackError>>

\* ---------------------------------------------------------- vision engine
\* Camera::SetCalib succeeds exactly when the file parses.
SetCalibOk(calibFile) == calibFile = "good.xml"

\* Camera after a successful SetCalib / after SetRes / after Calibrate(pp).
CamFromFile(calibFile, width, height) ==
    [calib |-> <<"file", calibFile>>, x_res |-> width, y_res |-> height]
CamSetRes(width, height) ==
    [calib |-> <<"synthetic", width, height>>, x_res |-> width, y_res |-> height]
CamCalibrate(c, points) ==
    [c EXCEPT !.calib = <<"calibrated", points>>]

\* Camera::GetOpenglProjectionMatrix(projMat, width, height)
GetOpenglProjectionMatrix(c, width, height) == <<c.calib, c.x_res, c.y_res, width, height>>

\* a selection with the two detectors exchanged
ActiveMarkersExchanged ==
    IF detector_id = 0 THEN markerDetector2.markers ELSE markerDetector.markers

\* the marker list alvar_get_poses / alvar_get_multi_marker_poses read for detector_id
ActiveMarkers == IF detector_id = 0 THEN markerDetector.markers ELSE markerDetector2.markers

\* (*markers)[i].GetId() with a 0-based index; outside the vector the read is undefined
MarkerAt(ms, i, junk) == IF i >= 0 /\ i < Len(ms) THEN ms[i + 1] ELSE junk

\* a MarkerDetector as constructed: no marker, the library's default geometry, no
\* size set for an id
NewDetector == [markers |-> <<>>, geometry |-> <<"default">>, map_edge_length |-> <<>>]

\* MarkerDetector::SetMarkerSize(edge_length, res, margin): the geometry of every
\* marker; the sizes set for single ids are forgotten
SetMarkerSize(detector, markerSize, markerRes, margin) ==
    [detector EXCEPT !.geometry = <<markerSize, markerRes, margin>>,
                     !.map_edge_length = <<>>]

\* MarkerDetector::SetMarkerSizeForId(id, edge_length): map_edge_length[id] = edge_length
SetMarkerSizeForId(detector, id, markerSize) ==
    [detector EXCEPT !.map_edge_length =
        [k \in (DOMAIN detector.map_edge_length) \cup {id} |->
            IF k = id THEN markerSize ELSE detector.map_edge_length[k]]]

\* the session of the single-detector wrapper (1.3) as its globals are constructed
NewWrapper13 ==
    [cam |-> [calib |-> <<"default">>, x_res |-> 0, y_res |-> 0],
     cam_width |-> 0,
     cam_height |-> 0,
     markerDetector |-> NewDetector,
     multiMarkers |-> <<>>,
     hide_texture_size |-> 0,
     channels |-> 0,
     idTable |-> <<>>,
     foundMarkers |-> <<>>,
     detect_additional |-> FALSE,
     curMaxTrackError |-> 0,
     out |-> [op |-> "none"]]

\* --------------------------------------------------------------------- Init
Init ==
    /\ cam = [calib |-> <<"default">>, x_res |-> 0, y_res |-> 0]
    /\ cam_width = 0
    /\ cam_height = 0
    /\ markerDetector = NewDetector
    /\ markerDetector2 = NewDetector
    /\ multiMarkers = <<>>
    /\ hide_texture_size = 0
    /\ channels = 0
    /\ idTable = <<>>
    /\ foundMarkers = <<>>
    /\ detect_additional = FALSE
    /\ curMaxTrackError = 0
    /\ detector_id = 0
    /\ pp = 0
    /\ calibration_started = FALSE
    /\ calibFileOut = [content |-> <<"none">>, stamp |-> 0]
    /\ addedSinceInit = FALSE
    /\ lastProj = NoProj
    /\ lastProjCal = NoProj
    /\ detectTrackError = 0
    /\ wrapper13 = NewWrapper13
    /\ out = [op |-> "none"]

\* ------------------------------------------------------------------ camera
\* an initialisation that also empties the interest selection
alvar_init_camera_resetting(calibFile, width, height) ==
    LET loaded == calibFile /= "NULL" /\ SetCalibOk(calibFile)
        ret == IF loaded THEN 0 ELSE -1
    IN /\ cam' = IF loaded THEN CamFromFile(calibFile, width, height)
                 ELSE CamSetRes(width, height)
       /\ cam_width' = width
       /\ cam_height' = height
       /\ detector_id' = 0
       /\ detect_additional' = FALSE
       /\ calibration_started' = FALSE
       /\ foundMarkers' = <<>>
       /\ addedSinceInit' = FALSE
       /\ lastProj' = NoProj
       /\ lastProjCal' = NoProj
       /\ out' = [op |-> "alvar_init_camera", calibFile |-> calibFile,
                  width |-> width, height |-> height, ret |-> ret]
       /\ UNCHANGED <<markerDetector, markerDetector2, idTable, curMaxTrackError,
                      texVars, multiMarkers, pp, calibFileOut, detectTrackError>>

\* a return value with the two outcomes exchanged
InitCameraRetExchanged(loaded) == IF loaded THEN -1 ELSE 0

\* lines 75-77: int ret = -1, set to 0 when the calibration was loaded
InitCameraRet(loaded) == IF loaded THEN 0 ELSE -1

alvar_init_camera(calibFile, width, height) ==
    LET loaded == calibFile /= "NULL" /\ SetCalibOk(calibFile)
        ret == InitCameraRet(loaded)
    IN /\ cam' = IF loaded THEN CamFromFile(calibFile, width, height)
                 ELSE CamSetRes(width, height)
       /\ cam_width' = width
       /\ cam_height' = height
       /\ detector_id' = 0
       /\ detect_additional' = FALSE
       /\ calibration_started' = FALSE
       /\ addedSinceInit' = FALSE
       /\ lastProj' = NoProj
       /\ lastProjCal' = NoProj
       /\ out' = [op |-> "alvar_init_camera", calibFile |-> calibFile,
                  width |-> width, height |-> height, ret |-> ret]
       /\ UNCHANGED <<detVars, texVars, multiMarkers, pp, calibFileOut, detectTrackError>>

alvar_get_camera_params ==
    LET projMat == GetOpenglProjectionMatrix(cam, cam_width, cam_height)
    IN /\ out' = [op |-> "alvar_get_camera_params", projMat |-> projMat,
                  prev |-> lastProj, prevCal |-> lastProjCal]
       /\ lastProj' = projMat
       /\ lastProjCal' = projMat
       /\ UNCHANGED <<camVars, detVars, texVars, calVars, multiMarkers,
                      detect_additional, detector_id, addedSinceInit, detectTrackError>>

\* ------------------------------------------------------------- calibration
\* found: whether ProjPoints::AddPointsUsingChessboard located the pattern
alvar_calibrate_camera(found) ==
    /\ found => pp < MaxObs
    /\ pp' = IF found THEN pp + 1 ELSE pp
    /\ calibration_started' = IF found THEN TRUE ELSE calibration_started
    /\ addedSinceInit' = IF found THEN TRUE ELSE addedSinceInit
    /\ out' = [op |-> "alvar_calibrate_camera", ret |-> found]
    /\ UNCHANGED <<camVars, detVars, texVars, multiMarkers, detect_additional,
                   detector_id, calibFileOut, lastProj, lastProjCal, detectTrackError>>

\* Camera::SaveCalib(calibrationFilename) writing the calibration c
SaveCalib(file, c) == [content |-> <<"calib", c.calib>>, stamp |-> 1 - file.stamp]

\* a finalization without the test of line 337
FinalizeAllowedAlways == TRUE

\* line 337: finalization goes on only while calibration_started
FinalizeAllowed == calibration_started

\* a flag that every finalization clears, whatever SaveCalib returned
StartedAfterSaveCleared(saved, started) == FALSE

\* a flag that no finalization clears
StartedAfterSaveKept(saved, started) == started

\* lines 344-345: calibration_started after SaveCalib returned saved
StartedAfterSave(saved, started) == IF saved THEN FALSE ELSE started

\* what a finalize call leaves of the call before it, for the calls that follow one another
PreviousCall ==
    IF out.op = "alvar_finalize_calibration"
    THEN [op |-> out.op, ret |-> out.ret, points |-> out.points]
    ELSE [op |-> out.op]

\* saved: whether Camera::SaveCalib wrote the file
alvar_finalize_calibration(saved) ==
    IF ~FinalizeAllowed
    THEN /\ out' = [op |-> "alvar_finalize_calibration", ret |-> FALSE, saved |-> saved,
                    started |-> calibration_started, fresh |-> ~addedSinceInit,
                    points |-> pp, previous |-> PreviousCall]
         /\ UNCHANGED <<camVars, detVars, texVars, calVars, multiMarkers,
                        detect_additional, detector_id, histVars>>
    ELSE LET calibrated == CamCalibrate(cam, pp)
         IN /\ cam' = calibrated
            /\ pp' = 0
            /\ calibFileOut' = IF saved THEN SaveCalib(calibFileOut, calibrated)
                               ELSE calibFileOut
            /\ calibration_started' = StartedAfterSave(saved, calibration_started)
            /\ lastProjCal' = IF calibration_started THEN NoProj ELSE lastProjCal
            /\ out' = [op |-> "alvar_finalize_calibration", ret |-> saved, saved |-> saved,
                       started |-> calibration_started, fresh |-> ~addedSinceInit,
                       points |-> pp, previous |-> PreviousCall]
            /\ UNCHANGED <<cam_width, cam_height, detVars, texVars, multiMarkers,
                           detect_additional, detector_id, addedSinceInit, lastProj,
                           detectTrackError>>

\* ----------------------------------------------------------- configuration
alvar_init_marker_detector(markerSize, markerRes, margin) ==
    /\ markerDetector' = SetMarkerSize(markerDetector, markerSize, markerRes, margin)
    /\ markerDetector2' = SetMarkerSize(markerDetector2, markerSize, markerRes, margin)
    /\ out' = [op |-> "alvar_init_marker_detector"]
    /\ UNCHANGED <<camVars, idTable, foundMarkers, curMaxTrackError, texVars, calVars,
                   multiMarkers, detect_additional, detector_id, histVars>>

\* a size override that goes to the detector detector_id selects
alvar_set_marker_size_on_active(id, markerSize) ==
    /\ IF detector_id = 0
       THEN /\ markerDetector' = SetMarkerSizeForId(markerDetector, id, markerSize)
            /\ UNCHANGED markerDetector2
       ELSE /\ markerDetector2' = SetMarkerSizeForId(markerDetector2, id, markerSize)
            /\ UNCHANGED markerDetector
    /\ out' = [op |-> "alvar_set_marker_size", id |-> id, markerSize |-> markerSize]
    /\ UNCHANGED <<camVars, idTable, foundMarkers, curMaxTrackError, texVars, calVars,
                   multiMarkers, detect_additional, detector_id, histVars>>

\* lines 111-114: markerDetector.SetMarkerSizeForId(id, markerSize), detector_id not
\* looked at
alvar_set_marker_size(id, markerSize) ==
    /\ markerDetector' = SetMarkerSizeForId(markerDetector, id, markerSize)
    /\ out' = [op |-> "alvar_set_marker_size", id |-> id, markerSize |-> markerSize]
    /\ UNCHANGED <<camVars, markerDetector2, idTable, foundMarkers, curMaxTrackError,
                   texVars, calVars, multiMarkers, detect_additional, detector_id,
                   histVars>>

alvar_set_detect_additional(enable) ==
    /\ detect_additional' = enable
    /\ out' = [op |-> "alvar_set_detect_additional"]
    /\ UNCHANGED <<camVars, detVars, texVars, calVars, multiMarkers, detector_id, histVars>>

\* cvCreateImage(size x size, depth, _channels) is the scratch texture
alvar_set_hide_texture_configuration(size, _channels) ==
    /\ hide_texture_size' = size * size * _channels
    /\ channels' = _channels
    /\ out' = [op |-> "alvar_set_hide_texture_configuration"]
    /\ UNCHANGED <<camVars, detVars, calVars, multiMarkers, detect_additional,
                   detector_id, histVars>>

\* a switch that also drops the detection result of the detector it leaves
alvar_select_detector_dropping(_detector_id) ==
    /\ detector_id' = _detector_id
    /\ IF detector_id = 0
       THEN /\ markerDetector' = [markerDetector EXCEPT !.markers = <<>>]
            /\ UNCHANGED markerDetector2
       ELSE /\ markerDetector2' = [markerDetector2 EXCEPT !.markers = <<>>]
            /\ UNCHANGED markerDetector
    /\ out' = [op |-> "alvar_select_detector", _detector_id |-> _detector_id]
    /\ UNCHANGED <<camVars, idTable, foundMarkers, curMaxTrackError, texVars, calVars,
                   multiMarkers, detect_additional, histVars>>

alvar_select_detector(_detector_id) ==
    /\ detector_id' = _detector_id
    /\ out' = [op |-> "alvar_select_detector", _detector_id |-> _detector_id]
    /\ UNCHANGED <<camVars, detVars, texVars, calVars, multiMarkers, detect_additional,
                   histVars>>

\* strstr(filename, ".xml") != NULL
IsXml(filename) == filename = "b.xml"

\* line 141: multiMarkers.push_back(marker), whatever MultiMarker::Load returned
RegisterBundle(registry, marker) == Append(registry, marker)

\* parsed: whether MultiMarker::Load read the geometry; its result is not looked at,
\* and the function returns nothing
alvar_add_multi_marker(ids, filename, parsed) ==
    LET marker == [ids |-> ids, loaded |-> parsed]
    IN /\ Len(multiMarkers) < MaxBundles
       /\ multiMarkers' = RegisterBundle(multiMarkers, marker)
       /\ out' = [op |-> "alvar_add_multi_marker", parsed |-> parsed,
                  format |-> IF IsXml(filename) THEN "FILE_FORMAT_XML"
                             ELSE "FILE_FORMAT_DEFAULT",
                  ret |-> "void",
                  before |-> multiMarkers]
       /\ UNCHANGED <<camVars, detVars, texVars, calVars, detect_additional, detector_id,
                      histVars>>

\* ---------------------------------------------------------------- detection
\* a table that numbers the markers from 1 (what an off-by-one in line 197 gives)
RECURSIVE BuildIdTableFromOne(_, _, _)
BuildIdTableFromOne(ms, i, tbl) ==
    IF i >= Len(ms) THEN tbl
    ELSE BuildIdTableFromOne(ms, i + 1,
                      [id \in (DOMAIN tbl) \cup {ms[i + 1]} |->
                          IF id = ms[i + 1] THEN i + 1 ELSE tbl[id]])

\* lines 191-198: idTable[tmpID] = i for i = 0 .. size-1, a later marker replacing
\* an earlier one of the same id
RECURSIVE BuildIdTable(_, _, _)
BuildIdTable(ms, i, tbl) ==
    IF i >= Len(ms) THEN tbl
    ELSE BuildIdTable(ms, i + 1,
                      [id \in (DOMAIN tbl) \cup {ms[i + 1]} |->
                          IF id = ms[i + 1] THEN i ELSE tbl[id]])

\* a lookup that does not test foundPtr against idTable.end() and pushes index 0 for
\* an id it did not find
RECURSIVE LookupInterestedUnchecked(_, _, _, _)
LookupInterestedUnchecked(tbl, interestedMarkerIDs, i, found) ==
    IF i > Len(interestedMarkerIDs) THEN found
    ELSE LookupInterestedUnchecked(tbl, interestedMarkerIDs, i + 1,
                          IF interestedMarkerIDs[i] \in DOMAIN tbl
                          THEN Append(found, tbl[interestedMarkerIDs[i]])
                          ELSE Append(found, 0))

\* lines 200-208: one push_back per requested position whose id is in the table
RECURSIVE LookupInterested(_, _, _, _)
LookupInterested(tbl, interestedMarkerIDs, i, found) ==
    IF i > Len(interestedMarkerIDs) THEN found
    ELSE LookupInterested(tbl, interestedMarkerIDs, i + 1,
                          IF interestedMarkerIDs[i] \in DOMAIN tbl
                          THEN Append(found, tbl[interestedMarkerIDs[i]])
                          ELSE found)

\* a resolution that clears foundMarkers only where it rebuilds the table
ResolveInterestNoClear(detected, interestedMarkerIDs, oldTable, oldFound) ==
    IF Len(detected) > 0 /\ Len(interestedMarkerIDs) > 0
    THEN LET tbl == BuildIdTable(detected, 0, <<>>)
         IN [idTable |-> tbl,
             foundMarkers |-> LookupInterested(tbl, interestedMarkerIDs, 1, <<>>)]
    ELSE [idTable |-> oldTable, foundMarkers |-> oldFound]

\* lines 183-209: foundMarkers.clear(), then, with markers detected and ids requested,
\* idTable.clear(), the table of the new markers and the lookup of the requested ids
ResolveInterest(detected, interestedMarkerIDs, oldTable, oldFound) ==
    IF Len(detected) > 0 /\ Len(interestedMarkerIDs) > 0
    THEN LET tbl == BuildIdTable(detected, 0, <<>>)
         IN [idTable |-> tbl,
             foundMarkers |-> LookupInterested(tbl, interestedMarkerIDs, 1, <<>>)]
    ELSE [idTable |-> oldTable, foundMarkers |-> <<>>]

\* a threshold recorded for the first detector only
RecordedTrackErrorFirstDetector(maxTrackError) ==
    IF detector_id = 0 THEN maxTrackError ELSE curMaxTrackError

\* line 177: curMaxTrackError = maxTrackError
RecordedTrackError(maxTrackError) == maxTrackError

\* a detection that always runs on the first detector
DetectsOnFirstAlways == TRUE

\* lines 173-176: Detect runs on markerDetector if detector_id == 0, on markerDetector2
\* otherwise
DetectsOnFirst == detector_id = 0

\* detected: the marker list MarkerDetector::Detect leaves in the detector it runs on
alvar_detect_marker(interestedMarkerIDs, detected, maxTrackError) ==
    LET first == IF DetectsOnFirst THEN [markerDetector EXCEPT !.markers = detected]
                 ELSE markerDetector
        second == IF DetectsOnFirst THEN markerDetector2
                  ELSE [markerDetector2 EXCEPT !.markers = detected]
        \* lines 178-181, 187 and 193-196 read the detector detector_id selects
        markers == IF detector_id = 0 THEN first.markers ELSE second.markers
        size == Len(markers)
        resolved == ResolveInterest(markers, interestedMarkerIDs, idTable, foundMarkers)
        markerCount == Len(resolved.foundMarkers)
    IN /\ markerDetector' = first
       /\ markerDetector2' = second
       /\ curMaxTrackError' = RecordedTrackError(maxTrackError)
       /\ detectTrackError' = maxTrackError
       /\ idTable' = resolved.idTable
       /\ foundMarkers' = resolved.foundMarkers
       /\ out' = [op |-> "alvar_detect_marker",
                  interestedMarkerIDs |-> interestedMarkerIDs,
                  numFoundMarkers |-> size,
                  numInterestedMarkers |-> markerCount,
                  hadSelection |-> foundMarkers /= <<>>]
       /\ UNCHANGED <<camVars, texVars, calVars, multiMarkers, detect_additional,
                      detector_id, addedSinceInit, lastProj, lastProjCal>>

\* -------------------------------------------------------------------- poses
\* a copy loop that keeps the channel order in both paths
RECURSIVE CopyHideTextureSameOrder(_, _, _, _, _)
CopyHideTextureSameOrder(buf, entry, j, textureIndex, swap) ==
    IF j >= hide_texture_size THEN buf
    ELSE LET w0 == (textureIndex :> <<entry, j>>) @@ buf
             w1 == (textureIndex + 1 :> <<entry, j + 1>>) @@ w0
             w2 == (textureIndex + 2 :> <<entry, j + 2>>) @@ w1
             w3 == IF channels = 4 THEN (textureIndex + 3 :> <<entry, j + 3>>) @@ w2 ELSE w2
         IN CopyHideTextureSameOrder(w3, entry, j + channels, textureIndex + channels, swap)

\* The copy loop of lines 243-251 (swap = FALSE) and 288-296 (swap = TRUE) for entry
\* number entry: buf maps an output index to the <<entry, scratch index>> it received.
RECURSIVE CopyHideTexture(_, _, _, _, _)
CopyHideTexture(buf, entry, j, textureIndex, swap) ==
    IF j >= hide_texture_size THEN buf
    ELSE LET w0 == (textureIndex :> <<entry, IF swap THEN j + 2 ELSE j>>) @@ buf
             w1 == (textureIndex + 1 :> <<entry, j + 1>>) @@ w0
             w2 == (textureIndex + 2 :> <<entry, IF swap THEN j ELSE j + 2>>) @@ w1
             w3 == IF channels = 4 THEN (textureIndex + 3 :> <<entry, j + 3>>) @@ w2 ELSE w2
         IN CopyHideTexture(w3, entry, j + channels, textureIndex + channels, swap)

\* a textureIndex that starts at 0 again for every entry
RECURSIVE HideTexturesFromZero(_, _, _, _)
HideTexturesFromZero(buf, entry, n, swap) ==
    IF entry >= n THEN buf
    ELSE HideTexturesFromZero(CopyHideTexture(buf, entry, 0, 0, swap), entry + 1, n, swap)

\* hideTextures after the copy loops of entries 0 .. n-1
RECURSIVE HideTextures(_, _, _, _)
HideTextures(buf, entry, n, swap) ==
    IF entry >= n THEN buf
    ELSE HideTextures(CopyHideTexture(buf, entry, 0, entry * hide_texture_size, swap),
                      entry + 1, n, swap)

\* junk[i]: what entry i reads when foundMarkers[i] is outside the marker list
alvar_get_poses(returnHideTextures, junk) ==
    LET size == Len(foundMarkers)
        ms == ActiveMarkers
        ids == [i \in 1..size |-> MarkerAt(ms, foundMarkers[i], junk[i])]
    IN /\ returnHideTextures => hide_texture_size > 0
       /\ out' = [op |-> "alvar_get_poses",
                  ids |-> ids,
                  poseMats |-> [i \in 1..size |-> <<"pose", ids[i]>>],
                  hideTextures |-> IF returnHideTextures
                                   THEN HideTextures(<<>>, 0, size, FALSE) ELSE <<>>]
       /\ UNCHANGED <<camVars, detVars, texVars, calVars, multiMarkers, detect_additional,
                      detector_id, histVars>>

\* MultiMarker::Update(markers, &cam, pose): the pose and the error it returns are
\* functions of the bundle, of the marker list it is given and of the camera
Update(bundle, detector, ms, c) ==
    [pose |-> <<"bundle pose", bundle.ids, ms, c.calib>>,
     error |-> <<"bundle error", bundle.ids, ms, c.calib>>,
     detector |-> detector,
     markers |-> ms]

\* What MarkerDetector::DetectAdditional may append to the markers of the detector it
\* is called on: tracked members of the bundle (MultiMarker::SetTrackMarkers hints the
\* members not yet in the list), each at most once, the list staying within MaxMarkers.
DetectAdditionalChoices(bundle, ms) ==
    LET cand == (Range(bundle.ids) \cap DetIds) \ Range(ms)
        room == IF MaxMarkers > Len(ms) THEN MaxMarkers - Len(ms) ELSE 0
    IN {a \in SeqsUpTo(cand, room) : Cardinality(Range(a)) = Len(a)}

\* an identifier counted from 1
BundleIdFromOne(i) == i + 1

\* line 267: ids[i] = i
BundleId(i) == i

\* The loop of lines 265-298 from bundle i on. m0 is markerDetector.markers, which
\* DetectAdditional extends; additional[i + 1] is what the call made for bundle i
\* appends. Yields the marker list left in markerDetector, the entries written and
\* the DetectAdditional calls issued.
RECURSIVE MultiMarkerLoop(_, _, _, _, _)
MultiMarkerLoop(i, m0, additional, entries, calls) ==
    IF i >= Len(multiMarkers)
    THEN [markers |-> m0, entries |-> entries, calls |-> calls]
    ELSE LET bundle == multiMarkers[i + 1]
             refined == IF detect_additional THEN m0 \o additional[i + 1] ELSE m0
             call == [detector |-> 0, bundle |-> i, max_track_error |-> curMaxTrackError,
                      hint |-> Update(bundle, 0, m0, cam).markers]
             result == IF detector_id = 0 THEN Update(bundle, 0, refined, cam)
                       ELSE Update(bundle, 1, markerDetector2.markers, cam)
         IN MultiMarkerLoop(i + 1, refined, additional,
                            Append(entries, [id |-> BundleId(i), pose |-> result.pose,
                                             error |-> result.error,
                                             detector |-> result.detector,
                                             markers |-> result.markers]),
                            IF detect_additional THEN Append(calls, call) ELSE calls)

\* additional is a possible outcome of the DetectAdditional calls of the loop
RECURSIVE AdditionalPossible(_, _, _)
AdditionalPossible(i, m0, additional) ==
    IF i >= Len(multiMarkers) THEN TRUE
    ELSE /\ additional[i + 1] \in
              (IF detect_additional THEN DetectAdditionalChoices(multiMarkers[i + 1], m0)
               ELSE {<<>>})
         /\ AdditionalPossible(i + 1, m0 \o additional[i + 1], additional)

alvar_get_multi_marker_poses(returnHideTextures, additional) ==
    LET size == Len(ActiveMarkers)
        run == MultiMarkerLoop(0, markerDetector.markers, additional, <<>>, <<>>)
    IN /\ returnHideTextures => hide_texture_size > 0
       /\ Len(additional) = Len(multiMarkers)
       /\ IF size = 0
          THEN /\ \A i \in 1..Len(additional) : additional[i] = <<>>
               /\ out' = [op |-> "alvar_get_multi_marker_poses", size |-> size,
                          entries |-> <<>>, calls |-> <<>>, hideTextures |-> <<>>,
                          repeated |-> out.op = "alvar_get_multi_marker_poses"]
               /\ UNCHANGED markerDetector
          ELSE /\ AdditionalPossible(0, markerDetector.markers, additional)
               /\ markerDetector' = [markerDetector EXCEPT !.markers = run.markers]
               /\ out' = [op |-> "alvar_get_multi_marker_poses", size |-> size,
                          entries |-> run.entries, calls |-> run.calls,
                          hideTextures |-> IF returnHideTextures
                                           THEN HideTextures(<<>>, 0, Len(multiMarkers), TRUE)
                                           ELSE <<>>,
                          repeated |-> out.op = "alvar_get_multi_marker_poses"]
       /\ UNCHANGED <<camVars, markerDetector2, idTable, foundMarkers, curMaxTrackError,
                      texVars, calVars, multiMarkers, detect_additional, detector_id,
                      histVars>>

\* ------------------------------------- the single-detector wrapper (1.3)
\* ALVARWrapper1.3/MarkerDetectorWrapper.cpp keeps its session in the same globals
\* without markerDetector2, detector_id and the calibration state. Its session is the
\* record w; each entry point yields the session after the call, whose field out holds
\* what the call returned and wrote.
v13_alvar_init_camera(w, calibFile, width, height) ==
    LET loaded == calibFile /= "NULL" /\ SetCalibOk(calibFile)
    IN [w EXCEPT !.cam = IF loaded THEN CamFromFile(calibFile, width, height)
                         ELSE CamSetRes(width, height),
                 !.cam_width = width,
                 !.cam_height = height,
                 !.detect_additional = FALSE,
                 !.out = [op |-> "alvar_init_camera", calibFile |-> calibFile,
                          width |-> width, height |-> height,
                          ret |-> IF loaded THEN 0 ELSE -1]]

v13_alvar_get_camera_params(w) ==
    [w EXCEPT !.out = [op |-> "alvar_get_camera_params",
                       projMat |-> GetOpenglProjectionMatrix(w.cam, w.cam_width,
                                                             w.cam_height)]]

v13_alvar_init_marker_detector(w, markerSize, markerRes, margin) ==
    [w EXCEPT !.markerDetector = SetMarkerSize(w.markerDetector, markerSize, markerRes,
                                               margin),
              !.out = [op |-> "alvar_init_marker_detector"]]

v13_alvar_set_detect_additional(w, enable) ==
    [w EXCEPT !.detect_additional = enable,
              !.out = [op |-> "alvar_set_detect_additional"]]

v13_alvar_set_marker_size(w, id, markerSize) ==
    [w EXCEPT !.markerDetector = SetMarkerSizeForId(w.markerDetector, id, markerSize),
              !.out = [op |-> "alvar_set_marker_size", id |-> id,
                       markerSize |-> markerSize]]

v13_alvar_set_hide_texture_configuration(w, size, _channels) ==
    [w EXCEPT !.hide_texture_size = size * size * _channels,
              !.channels = _channels,
              !.out = [op |-> "alvar_set_hide_texture_configuration"]]

\* Load's result is not looked at here either
v13_alvar_add_multi_marker(w, ids, filename, parsed) ==
    [w EXCEPT !.multiMarkers = Append(w.multiMarkers, [ids |-> ids, loaded |-> parsed]),
              !.out = [op |-> "alvar_add_multi_marker", parsed |-> parsed,
                       format |-> IF IsXml(filename) THEN "FILE_FORMAT_XML"
                                  ELSE "FILE_FORMAT_DEFAULT",
                       ret |-> "void"]]

\* lines 169-173: idTable[tmpID] = i
RECURSIVE v13_BuildIdTable(_, _, _)
v13_BuildIdTable(ms, i, tbl) ==
    IF i >= Len(ms) THEN tbl
    ELSE v13_BuildIdTable(ms, i + 1,
                          [id \in (DOMAIN tbl) \cup {ms[i + 1]} |->
                              IF id = ms[i + 1] THEN i ELSE tbl[id]])

\* lines 175-183
RECURSIVE v13_LookupInterested(_, _, _, _)
v13_LookupInterested(tbl, interestedMarkerIDs, i, found) ==
    IF i > Len(interestedMarkerIDs) THEN found
    ELSE v13_LookupInterested(tbl, interestedMarkerIDs, i + 1,
                              IF interestedMarkerIDs[i] \in DOMAIN tbl
                              THEN Append(found, tbl[interestedMarkerIDs[i]])
                              ELSE found)

v13_alvar_detect_marker(w, interestedMarkerIDs, detected, maxTrackError) ==
    LET rebuilt == Len(detected) > 0 /\ Len(interestedMarkerIDs) > 0
        tbl == IF rebuilt THEN v13_BuildIdTable(detected, 0, <<>>) ELSE w.idTable
        found == IF rebuilt THEN v13_LookupInterested(tbl, interestedMarkerIDs, 1, <<>>)
                 ELSE <<>>
    IN [w EXCEPT !.markerDetector = [w.markerDetector EXCEPT !.markers = detected],
                 !.curMaxTrackError = maxTrackError,
                 !.idTable = tbl,
                 !.foundMarkers = found,
                 !.out = [op |-> "alvar_detect_marker",
                          interestedMarkerIDs |-> interestedMarkerIDs,
                          numFoundMarkers |-> Len(detected),
                          numInterestedMarkers |-> Len(found)]]

\* lines 209-217 (swap = FALSE) and 251-259 (swap = TRUE)
RECURSIVE v13_CopyHideTexture(_, _, _, _, _, _)
v13_CopyHideTexture(w, buf, entry, j, textureIndex, swap) ==
    IF j >= w.hide_texture_size THEN buf
    ELSE LET w0 == (textureIndex :> <<entry, IF swap THEN j + 2 ELSE j>>) @@ buf
             w1 == (textureIndex + 1 :> <<entry, j + 1>>) @@ w0
             w2 == (textureIndex + 2 :> <<entry, IF swap THEN j ELSE j + 2>>) @@ w1
             w3 == IF w.channels = 4 THEN (textureIndex + 3 :> <<entry, j + 3>>) @@ w2
                   ELSE w2
         IN v13_CopyHideTexture(w, w3, entry, j + w.channels, textureIndex + w.channels,
                                swap)

RECURSIVE v13_HideTextures(_, _, _, _, _)
v13_HideTextures(w, buf, entry, n, swap) ==
    IF entry >= n THEN buf
    ELSE v13_HideTextures(w, v13_CopyHideTexture(w, buf, entry, 0,
                                                 entry * w.hide_texture_size, swap),
                          entry + 1, n, swap)

v13_alvar_get_poses(w, returnHideTextures, junk) ==
    LET size == Len(w.foundMarkers)
        ids == [i \in 1..size |->
                   MarkerAt(w.markerDetector.markers, w.foundMarkers[i],
                            IF i \in DOMAIN junk THEN junk[i] ELSE Garbage)]
    IN [w EXCEPT !.out = [op |-> "alvar_get_poses",
                          ids |-> ids,
                          poseMats |-> [i \in 1..size |-> <<"pose", ids[i]>>],
                          hideTextures |-> IF returnHideTextures
                                           THEN v13_HideTextures(w, <<>>, 0, size, FALSE)
                                           ELSE <<>>]]

\* the loop of lines 231-261 from bundle i on
RECURSIVE v13_MultiMarkerLoop(_, _, _, _, _, _)
v13_MultiMarkerLoop(w, i, m0, additional, entries, calls) ==
    IF i >= Len(w.multiMarkers)
    THEN [markers |-> m0, entries |-> entries, calls |-> calls]
    ELSE LET bundle == w.multiMarkers[i + 1]
             refined == IF w.detect_additional /\ i + 1 \in DOMAIN additional
                        THEN m0 \o additional[i + 1] ELSE m0
             call == [detector |-> 0, bundle |-> i,
                      max_track_error |-> w.curMaxTrackError,
                      hint |-> Update(bundle, 0, m0, w.cam).markers]
             result == Update(bundle, 0, refined, w.cam)
         IN v13_MultiMarkerLoop(w, i + 1, refined, additional,
                                Append(entries, [id |-> i, pose |-> result.pose,
                                                 error |-> result.error,
                                                 detector |-> result.detector,
                                                 markers |-> result.markers]),
                                IF w.detect_additional THEN Append(calls, call) ELSE calls)

v13_alvar_get_multi_marker_poses(w, returnHideTextures, additional) ==
    LET size == Len(w.markerDetector.markers)
        run == v13_MultiMarkerLoop(w, 0, w.markerDetector.markers, additional, <<>>, <<>>)
    IN IF size = 0
       THEN [w EXCEPT !.out = [op |-> "alvar_get_multi_marker_poses", size |-> size,
                               entries |-> <<>>, calls |-> <<>>, hideTextures |-> <<>>]]
       ELSE [w EXCEPT !.markerDetector = [w.markerDetector EXCEPT !.markers = run.markers],
                      !.out = [op |-> "alvar_get_multi_marker_poses", size |-> size,
                               entries |-> run.entries, calls |-> run.calls,
                               hideTextures |->
                                   IF returnHideTextures
                                   THEN v13_HideTextures(w, <<>>, 0, Len(w.multiMarkers),
                                                         TRUE)
                                   ELSE <<>>]]

\* ------------------------------------------------------- the calls of a host
InitCamera ==
    \E f \in CalibFiles, w \in Widths, h \in Heights :
        alvar_init_camera(f, w, h) /\ UNCHANGED wrapper13
ReinitCamera == alvar_init_camera("NULL", 320, 240) /\ UNCHANGED wrapper13
GetCameraParams == alvar_get_camera_params /\ UNCHANGED wrapper13
CalibrateCamera ==
    \E found \in BOOLEAN : alvar_calibrate_camera(found) /\ UNCHANGED wrapper13
FinalizeCalibration ==
    \E saved \in BOOLEAN : alvar_finalize_calibration(saved) /\ UNCHANGED wrapper13
InitMarkerDetector ==
    \E size \in MarkerSizes, res \in MarkerResolutions, m \in MarkerMargins :
        alvar_init_marker_detector(size, res, m) /\ UNCHANGED wrapper13
SetMarkerSizeOverride ==
    \E id \in SizedIds, size \in MarkerSizes : alvar_set_marker_size(id, size)
        /\ UNCHANGED wrapper13
SetDetectAdditional ==
    \E enable \in BOOLEAN : alvar_set_detect_additional(enable) /\ UNCHANGED wrapper13
SetHideTextureConfiguration ==
    \E size \in TexSizes, c \in TexChannels : alvar_set_hide_texture_configuration(size, c)
        /\ UNCHANGED wrapper13
SelectDetector == \E d \in DetectorIds : alvar_select_detector(d) /\ UNCHANGED wrapper13
AddMultiMarker ==
    \E ids \in BundleMembers, f \in BundleFiles, parsed \in BOOLEAN :
        alvar_add_multi_marker(ids, f, parsed) /\ UNCHANGED wrapper13
DetectMarker ==
    \E r \in Requests, d \in Detections, e \in TrackErrors : alvar_detect_marker(r, d, e)
        /\ UNCHANGED wrapper13
\* a host that tracks bundles only and asks for no single marker
DetectMarkerNoInterest ==
    \E d \in Detections, e \in TrackErrors : alvar_detect_marker(<<>>, d, e)
        /\ UNCHANGED wrapper13
\* a host that shows one scene and asks for the same ids in every frame
DetectMarkerSameScene ==
    alvar_detect_marker(<<7, 3, 9>>, <<3, 7>>, 1) /\ UNCHANGED wrapper13
\* a host that leaves the thresholds at one value
DetectMarkerOneThreshold ==
    \E r \in Requests, d \in Detections : alvar_detect_marker(r, d, 1)
        /\ UNCHANGED wrapper13
\* what the reads of one alvar_get_poses call can yield outside the marker list
JunkCandidates(i) ==
    IF foundMarkers[i] < Len(ActiveMarkers) THEN {Garbage} ELSE DetIds \cup {Garbage}
RECURSIVE JunkOutcomes(_)
JunkOutcomes(n) ==
    IF n = 0 THEN {<<>>}
    ELSE {Append(j, x) : j \in JunkOutcomes(n - 1), x \in JunkCandidates(n)}
GetPoses ==
    \E t \in BOOLEAN, junk \in JunkOutcomes(Len(foundMarkers)) : alvar_get_poses(t, junk)
        /\ UNCHANGED wrapper13
\* what the DetectAdditional call made for bundle i can append at most
AdditionalCandidates(i) ==
    IF detect_additional /\ Len(ActiveMarkers) > 0
    THEN DetectAdditionalChoices(multiMarkers[i], <<>>)
    ELSE {<<>>}
RECURSIVE AdditionalOutcomes(_)
AdditionalOutcomes(n) ==
    IF n = 0 THEN {<<>>}
    ELSE {Append(a, x) : a \in AdditionalOutcomes(n - 1), x \in AdditionalCandidates(n)}
GetMultiMarkerPoses ==
    \E t \in BOOLEAN, additional \in AdditionalOutcomes(Len(multiMarkers)) :
        alvar_get_multi_marker_poses(t, additional) /\ UNCHANGED wrapper13

\* every entry point, every input
Next ==
    \/ InitCamera
    \/ GetCameraParams
    \/ CalibrateCamera
    \/ FinalizeCalibration
    \/ InitMarkerDetector
    \/ SetDetectAdditional
    \/ SetMarkerSizeOverride
    \/ SetHideTextureConfiguration
    \/ SelectDetector
    \/ AddMultiMarker
    \/ DetectMarker
    \/ GetPoses
    \/ GetMultiMarkerPoses

Spec == Init /\ [][Next]_vars

\* single-marker tracking: detection, the interest selection and its poses
NextInterest ==
    \/ SetHideTextureConfiguration
    \/ SelectDetector
    \/ DetectMarkerOneThreshold
    \/ GetPoses

SpecInterest == Init /\ [][NextInterest]_vars

\* bundle tracking: the registry, detection and the bundle poses
NextBundle ==
    \/ SetDetectAdditional
    \/ SelectDetector
    \/ AddMultiMarker
    \/ DetectMarkerNoInterest
    \/ GetMultiMarkerPoses

SpecBundle == Init /\ [][NextBundle]_vars

\* camera and calibration session, with the detector calls that share the camera
NextCalib ==
    \/ InitCamera
    \/ GetCameraParams
    \/ CalibrateCamera
    \/ FinalizeCalibration
    \/ SelectDetector
    \/ DetectMarkerSameScene

SpecCalib == Init /\ [][NextCalib]_vars

\* Hosts that make every call of the wrapper, each with few inputs (one camera, one
\* marker geometry, one bundle, three frames). A host either calibrates the camera or
\* configures tracking: the calibration calls are made while nothing is configured,
\* the configuration calls while nothing was calibrated.
NothingConfigured ==
    /\ multiMarkers = <<>>
    /\ hide_texture_size = 0
    /\ ~detect_additional
    /\ markerDetector = [NewDetector EXCEPT !.markers = markerDetector.markers]
    /\ markerDetector2 = [NewDetector EXCEPT !.markers = markerDetector2.markers]
NothingCalibrated ==
    /\ pp = 0
    /\ calibFileOut.content = <<"none">>
    /\ lastProj = NoProj
GetCameraParamsCalibrating ==
    NothingConfigured /\ alvar_get_camera_params /\ UNCHANGED wrapper13
CalibrateCameraFound ==
    NothingConfigured /\ alvar_calibrate_camera(TRUE) /\ UNCHANGED wrapper13
FinalizeCalibrationSaved ==
    NothingConfigured /\ alvar_finalize_calibration(TRUE) /\ UNCHANGED wrapper13
InitMarkerDetectorOnce ==
    NothingCalibrated /\ alvar_init_marker_detector(10, 5, 2) /\ UNCHANGED wrapper13
SetDetectAdditionalTracking ==
    NothingCalibrated /\ \E enable \in BOOLEAN : alvar_set_detect_additional(enable)
        /\ UNCHANGED wrapper13
SetMarkerSizeOverrideOnce ==
    NothingCalibrated /\ alvar_set_marker_size(3, 20) /\ UNCHANGED wrapper13
SetHideTextureConfigurationOnce ==
    NothingCalibrated /\ alvar_set_hide_texture_configuration(1, 3) /\ UNCHANGED wrapper13
AddMultiMarkerOnce ==
    NothingCalibrated /\ alvar_add_multi_marker(<<3>>, "b.xml", TRUE) /\ UNCHANGED wrapper13
DetectMarkerThreeFrames ==
    \E r \in {<<>>, <<7, 3, 9>>}, d \in {<<>>, <<3>>, <<3, 7>>} : alvar_detect_marker(r, d, 1)
        /\ UNCHANGED wrapper13

NextSession ==
    \/ ReinitCamera
    \/ GetCameraParamsCalibrating
    \/ CalibrateCameraFound
    \/ FinalizeCalibrationSaved
    \/ InitMarkerDetectorOnce
    \/ SetDetectAdditionalTracking
    \/ SetMarkerSizeOverrideOnce
    \/ SetHideTextureConfigurationOnce
    \/ SelectDetector
    \/ AddMultiMarkerOnce
    \/ DetectMarkerThreeFrames
    \/ GetPoses
    \/ GetMultiMarkerPoses

SpecSession == Init /\ [][NextSession]_vars

\* a host that sets marker sizes, switches between the detectors with any index and
\* tracks single markers
SelectAnyDetector ==
    \E d \in AnyDetectorIds : alvar_select_detector(d) /\ UNCHANGED wrapper13

NextDetectors ==
    \/ InitMarkerDetector
    \/ SetMarkerSizeOverride
    \/ SelectAnyDetector
    \/ DetectMarkerThreeFrames
    \/ GetPoses

SpecDetectors == Init /\ [][NextDetectors]_vars

\* a host that hides single markers and bundles with textures of one or four pixels
SetHideTextureConfigurationOfPixels ==
    \E size \in TexSizesOfPixels, c \in TexChannels :
        alvar_set_hide_texture_configuration(size, c) /\ UNCHANGED wrapper13

NextTexture ==
    \/ SetHideTextureConfigurationOfPixels
    \/ AddMultiMarkerOnce
    \/ DetectMarkerThreeFrames
    \/ GetPoses
    \/ GetMultiMarkerPoses

SpecTexture == Init /\ [][NextTexture]_vars

\* a host that gives the same calls, with the same frames and files, to the
\* two-detector wrapper and to the single-detector wrapper, and selects no detector
\* but the first
BothInitCamera ==
    \E f \in CalibFiles, w \in Widths, h \in Heights :
        /\ alvar_init_camera(f, w, h)
        /\ wrapper13' = v13_alvar_init_camera(wrapper13, f, w, h)
BothGetCameraParams ==
    /\ alvar_get_camera_params
    /\ wrapper13' = v13_alvar_get_camera_params(wrapper13)
BothInitMarkerDetector ==
    /\ alvar_init_marker_detector(10, 5, 2)
    /\ wrapper13' = v13_alvar_init_marker_detector(wrapper13, 10, 5, 2)
BothSetDetectAdditional ==
    \E enable \in BOOLEAN :
        /\ alvar_set_detect_additional(enable)
        /\ wrapper13' = v13_alvar_set_detect_additional(wrapper13, enable)
BothSetMarkerSize ==
    /\ alvar_set_marker_size(3, 20)
    /\ wrapper13' = v13_alvar_set_marker_size(wrapper13, 3, 20)
BothSetHideTextureConfiguration ==
    /\ alvar_set_hide_texture_configuration(1, 4)
    /\ wrapper13' = v13_alvar_set_hide_texture_configuration(wrapper13, 1, 4)
BothAddMultiMarker ==
    /\ alvar_add_multi_marker(<<7, 9>>, "b.xml", TRUE)
    /\ wrapper13' = v13_alvar_add_multi_marker(wrapper13, <<7, 9>>, "b.xml", TRUE)
BothDetectMarker ==
    \E r \in {<<>>, <<7, 3, 9>>}, d \in {<<>>, <<3>>, <<3, 7>>}, e \in TrackErrors :
        /\ alvar_detect_marker(r, d, e)
        /\ wrapper13' = v13_alvar_detect_marker(wrapper13, r, d, e)
BothGetPoses ==
    \E t \in BOOLEAN, junk \in JunkOutcomes(Len(foundMarkers)) :
        /\ alvar_get_poses(t, junk)
        /\ wrapper13' = v13_alvar_get_poses(wrapper13, t, junk)
BothGetMultiMarkerPoses ==
    \E t \in BOOLEAN, additional \in AdditionalOutcomes(Len(multiMarkers)) :
        /\ alvar_get_multi_marker_poses(t, additional)
        /\ wrapper13' = v13_alvar_get_multi_marker_poses(wrapper13, t, additional)
SelectFirstDetector == alvar_select_detector(0) /\ UNCHANGED wrapper13

NextVariants ==
    \/ BothInitCamera
    \/ BothGetCameraParams
    \/ BothInitMarkerDetector
    \/ BothSetDetectAdditional
    \/ BothSetMarkerSize
    \/ BothSetHideTextureConfiguration
    \/ BothAddMultiMarker
    \/ BothDetectMarker
    \/ BothGetPoses
    \/ BothGetMultiMarkerPoses
    \/ SelectFirstDetector

SpecVariants == Init /\ [][NextVariants]_vars

\* a host that hides single markers and bundles with textures of any channel count
SetHideTextureConfigurationOfChannels ==
    \E size \in TexSizesOfPixels, c \in AnyTexChannels :
        alvar_set_hide_texture_configuration(size, c) /\ UNCHANGED wrapper13

NextBuffers ==
    \/ SetHideTextureConfigurationOfChannels
    \/ SelectDetector
    \/ AddMultiMarkerOnce
    \/ DetectMarkerThreeFrames
    \/ GetPoses
    \/ GetMultiMarkerPoses

SpecBuffers == Init /\ [][NextBuffers]_vars

\* ================================================================== claims
\* the requested ids, in the requested order, that occur in the marker list ms
RequestedAndDetected(requested, ms) == SelectSeq(requested, LAMBDA id : id \in Range(ms))

NoRepeatedId(requested) == Cardinality(Range(requested)) = Len(requested)

AfterGetMultiMarkerPoses == out.op = "alvar_get_multi_marker_poses"

\* the last call was alvar_detect_marker, so ActiveMarkers is its detection result
AfterDetect == out.op = "alvar_detect_marker"

\* foundMarkers holds, for the requested ids that were detected and in their order,
\* an index of a marker carrying that id
SelectionMatches(requested, ms) ==
    /\ Len(foundMarkers) = Len(RequestedAndDetected(requested, ms))
    /\ \A k \in 1..Len(foundMarkers) :
          /\ foundMarkers[k] >= 0
          /\ foundMarkers[k] < Len(ms)
          /\ ms[foundMarkers[k] + 1] = RequestedAndDetected(requested, ms)[k]

\* C1: after alvar_detect_marker with a non-empty requested list R and detection
\* result D, foundMarkers holds one index per position of R whose id occurs in D, in
\* the order of R, each index that of a marker with that id; the returned count is the
\* number of entries; an alvar_get_poses call that follows reports those ids in order.
C1_SelectionInRequestedOrder ==
    [][ /\ ((AfterDetect /\ Len(out.interestedMarkerIDs) > 0) =>
              /\ SelectionMatches(out.interestedMarkerIDs, ActiveMarkers)
              /\ out.numInterestedMarkers = Len(foundMarkers))'
        /\ (AfterDetect /\ Len(out.interestedMarkerIDs) > 0 /\ out'.op = "alvar_get_poses") =>
              out'.ids = RequestedAndDetected(out.interestedMarkerIDs, ActiveMarkers)
      ]_vars

\* the documented example: R = [7,3,9], D = {3,7} gives the selection of 7 then 3
C1_Witness ==
    /\ AfterDetect
    /\ out.interestedMarkerIDs = <<7, 3, 9>>
    /\ ActiveMarkers = <<3, 7>>
    /\ foundMarkers = <<1, 0>>
    /\ out.numInterestedMarkers = 2

\* C2 as claimed: the returned count is at most the length of the requested list and
\* at most the number of detected markers, for every requested list.
C2_CountBounded_Claimed ==
    AfterDetect =>
        /\ out.numInterestedMarkers <= Len(out.interestedMarkerIDs)
        /\ out.numInterestedMarkers <= Len(ActiveMarkers)

\* C2 amended: the returned count is at most the length of the requested list; it is
\* at most the number of detected markers when the requested list repeats no id.
C2_CountBounded ==
    AfterDetect =>
        /\ out.numInterestedMarkers <= Len(out.interestedMarkerIDs)
        /\ NoRepeatedId(out.interestedMarkerIDs) =>
              out.numInterestedMarkers <= Len(ActiveMarkers)

\* a request without repetition that is longer than the detection result, every
\* detected marker being matched
C2_Witness ==
    /\ AfterDetect
    /\ NoRepeatedId(out.interestedMarkerIDs)
    /\ Len(out.interestedMarkerIDs) > Len(ActiveMarkers)
    /\ Len(ActiveMarkers) = 2
    /\ out.numInterestedMarkers = Len(ActiveMarkers)

\* C10: an alvar_detect_marker call whose active detector finds no marker leaves
\* foundMarkers empty and returns the count 0, whatever was requested and whatever
\* foundMarkers held; an alvar_get_poses call that follows writes to no output buffer.
C10_EmptyFrame ==
    [][ /\ ((AfterDetect /\ Len(ActiveMarkers) = 0) =>
              /\ foundMarkers = <<>>
              /\ out.numInterestedMarkers = 0)'
        /\ (AfterDetect /\ Len(ActiveMarkers) = 0 /\ out'.op = "alvar_get_poses") =>
              /\ out'.ids = <<>>
              /\ out'.poseMats = <<>>
              /\ out'.hideTextures = <<>>
      ]_vars

\* an empty frame after a frame with a selection, ids requested, textures configured
C10_Witness ==
    /\ AfterDetect
    /\ Len(ActiveMarkers) = 0
    /\ out.hadSelection
    /\ Len(out.interestedMarkerIDs) > 0
    /\ hide_texture_size > 0

\* C11: foundMarkers is changed by alvar_detect_marker only: no step of another entry
\* point changes it; an alvar_detect_marker call with an empty requested list leaves
\* idTable as it was (the resolution is skipped), returns the count 0 and leaves
\* foundMarkers empty, whatever the frame before had selected.
C11_OnlyDetectChangesSelection ==
    [][ /\ (foundMarkers' /= foundMarkers) => out'.op = "alvar_detect_marker"
        /\ (out'.op = "alvar_detect_marker" /\ out'.interestedMarkerIDs = <<>>) =>
              /\ foundMarkers' = <<>>
              /\ idTable' = idTable
              /\ out'.numInterestedMarkers = 0
      ]_vars

\* bundle poses reported on the second detector while the selection of two markers
\* made on the first detector is still held, the camera having been initialised since
C11_Witness ==
    /\ AfterGetMultiMarkerPoses
    /\ Len(out.entries) > 0
    /\ detector_id = 1
    /\ foundMarkers = <<1, 0>>
    /\ markerDetector.markers = <<3, 7>>
    /\ cam.calib[1] = "synthetic"

\* C12: an alvar_select_detector call, with any index and in any state, sets
\* detector_id to the index and changes nothing else: not the marker geometry, the
\* per-id sizes or the last detection result of either detector, nor any other part
\* of the session state.
C12_SelectIsPureSwitch ==
    [][ out'.op = "alvar_select_detector" =>
            /\ detector_id' = out'._detector_id
            /\ markerDetector' = markerDetector
            /\ markerDetector2' = markerDetector2
            /\ UNCHANGED <<camVars, idTable, foundMarkers, curMaxTrackError, texVars,
                           calVars, multiMarkers, detect_additional>>
      ]_vars

\* a switch to an index that names no detector, both detectors holding a detection
\* result and a geometry, the first a size for an id
C12_Witness ==
    /\ out.op = "alvar_select_detector"
    /\ out._detector_id = 2
    /\ detector_id = 2
    /\ markerDetector.markers = <<3, 7>>
    /\ markerDetector2.markers = <<3>>
    /\ markerDetector2.geometry /= <<"default">>
    /\ DOMAIN markerDetector.map_edge_length = {3, 7}

AfterFinalize == out.op = "alvar_finalize_calibration"

\* the last two calls were alvar_finalize_calibration, the first of them made with
\* observations accumulated
SecondFinalize ==
    /\ AfterFinalize
    /\ out.previous.op = "alvar_finalize_calibration"
    /\ out.previous.points >= 1

\* C4 as claimed: a finalize call that follows at once a finalize call made after
\* N >= 1 successful observations returns failure, whatever the first call's save did.
C4_SecondFinalizeFails_Claimed == SecondFinalize => out.ret = FALSE

\* C4 amended: a finalize call that follows at once a finalize call made after N >= 1
\* successful observations returns failure when the first call returned success (its
\* save succeeded).
C4_SecondFinalizeFails == (SecondFinalize /\ out.previous.ret) => out.ret = FALSE

\* the second of two finalize calls, the first having saved a calibration computed
\* from accumulated observations, and the file system ready to save again
C4_Witness ==
    /\ SecondFinalize
    /\ out.previous.ret
    /\ out.saved
    /\ ~out.ret
    /\ calibFileOut.content /= <<"none">>

\* C5 as claimed: a finalize call made while no observation was added since the last
\* alvar_init_camera returns failure and changes nothing: the accumulator is empty
\* before and after, the flag stays false, cam is not recomputed, no file is written.
C5_FinalizeWithoutObservation_Claimed ==
    [][ (out'.op = "alvar_finalize_calibration" /\ ~addedSinceInit) =>
            /\ out'.ret = FALSE
            /\ pp = 0
            /\ pp' = 0
            /\ calibration_started' = FALSE
            /\ cam' = cam
            /\ calibFileOut' = calibFileOut
      ]_vars

\* C6: a finalize call made while calibration is in progress empties the accumulator
\* whether or not the save succeeds, returns the save outcome, and leaves the flag
\* false exactly when the save succeeded.
C6_FinalizeInProgress ==
    (AfterFinalize /\ out.started) =>
        /\ pp = 0
        /\ out.ret = out.saved
        /\ calibration_started = ~out.saved

\* a failed save of a calibration computed from observations: flag set, accumulator empty
C6_Witness ==
    /\ AfterFinalize
    /\ out.started
    /\ out.points >= 1
    /\ ~out.saved
    /\ calibration_started
    /\ pp = 0

AfterGetCameraParams == out.op = "alvar_get_camera_params"

\* C9 as claimed: two alvar_get_camera_params calls with no alvar_init_camera between
\* them return the same projection matrix, whatever else was called between them.
C9_ProjectionStable_Claimed ==
    (AfterGetCameraParams /\ out.prev /= NoProj) => out.projMat = out.prev

\* C9 amended: two alvar_get_camera_params calls return the same projection matrix
\* when between them there is no alvar_init_camera call and no alvar_finalize_calibration
\* call made while calibration is in progress.
C9_ProjectionStable ==
    (AfterGetCameraParams /\ out.prevCal /= NoProj) => out.projMat = out.prevCal

\* a second alvar_get_camera_params with the detector switched, a frame detected and
\* observations accumulated since the camera was initialised
C9_Witness ==
    /\ AfterGetCameraParams
    /\ out.prevCal /= NoProj
    /\ detector_id = 1
    /\ markerDetector2.markers /= <<>>
    /\ pp >= 1
    /\ cam.calib[1] = "file"

\* C3 as claimed: an alvar_add_multi_marker call whose geometry file does not parse
\* leaves multiMarkers as it was and reports the failure to the caller.
C3_FailedParseAborts_Claimed ==
    (out.op = "alvar_add_multi_marker" /\ ~out.parsed) =>
        /\ multiMarkers = out.before
        /\ out.ret /= "void"

\* one entry per registered bundle, in registration order, numbered by its index
OneEntryPerBundle ==
    /\ Len(out.entries) = Len(multiMarkers)
    /\ \A i \in 1..Len(out.entries) :
          /\ out.entries[i].id = i - 1
          /\ out.entries[i].pose[2] = multiMarkers[i].ids

\* C7 as claimed: every alvar_get_multi_marker_poses call reports one entry per
\* registered bundle, in registration order, with the registration index as its id.
C7_BundleIds_Claimed == AfterGetMultiMarkerPoses => OneEntryPerBundle

\* C7 amended: every alvar_get_multi_marker_poses call made while the active
\* detector's marker list is not empty reports one entry per registered bundle, in
\* registration order, with the registration index as its id, whatever the member
\* ids; a call made while that list is empty reports nothing.
C7_BundleIds ==
    AfterGetMultiMarkerPoses =>
        IF out.size > 0 THEN OneEntryPerBundle ELSE out.entries = <<>>

\* two bundles reported, the first registered with the members 7 and 9 and reported as 0
C7_Witness ==
    /\ AfterGetMultiMarkerPoses
    /\ Len(out.entries) = 2
    /\ multiMarkers[1].ids = <<7, 9>>
    /\ out.entries[1].id = 0
    /\ out.entries[2].id = 1

\* the detector alvar_detect_marker and the pose calls select with detector_id
ActiveDetector == IF detector_id = 0 THEN 0 ELSE 1

\* C8 as claimed, for the calls that report entries on bundles whose geometry was
\* loaded: with detect_additional set, one
\* DetectAdditional call per registered bundle, each on the active detector, and the
\* entry of the bundle computed from the active detector's marker list; with
\* detect_additional clear, no DetectAdditional call.
C8_DetectAdditionalOnActive_Claimed ==
    (/\ AfterGetMultiMarkerPoses
     /\ out.size > 0
     /\ \A i \in 1..Len(multiMarkers) : multiMarkers[i].loaded) =>
        IF detect_additional
        THEN /\ Len(out.calls) = Len(multiMarkers)
             /\ \A i \in 1..Len(out.calls) :
                   /\ out.calls[i].bundle = i - 1
                   /\ out.calls[i].detector = ActiveDetector
                   /\ out.entries[i].detector = ActiveDetector
        ELSE out.calls = <<>>

\* C14: every DetectAdditional call of an alvar_get_multi_marker_poses call is given
\* as its track-error threshold the maxTrackError of the most recent
\* alvar_detect_marker call, also when several alvar_get_multi_marker_poses calls
\* follow one detection.
C14_AdditionalThreshold ==
    AfterGetMultiMarkerPoses =>
        \A i \in 1..Len(out.calls) : out.calls[i].max_track_error = detectTrackError

\* the second of two alvar_get_multi_marker_poses calls in a row, made on the second
\* detector, two DetectAdditional calls issued with the threshold 2
C14_Witness ==
    /\ AfterGetMultiMarkerPoses
    /\ out.repeated
    /\ Len(out.calls) = 2
    /\ detector_id = 1
    /\ detectTrackError = 2
    /\ out.calls[2].max_track_error = 2

\* the index, within the same pixel, of the channel exchanged with the channel at k
SwappedIndex(k) ==
    IF k % channels = 0 THEN k + 2
    ELSE IF k % channels = 2 THEN k - 2
    ELSE k

\* buffer b is buffer a with the first and the third channel of every pixel exchanged
ChannelSwapped(a, b) ==
    /\ DOMAIN a = DOMAIN b
    /\ \A k \in DOMAIN a : b[k] = a[SwappedIndex(k)]

OneMarkerTextured(o) ==
    o.op = "alvar_get_poses" /\ Len(o.ids) = 1 /\ o.hideTextures /= <<>>

OneBundleTextured(o) ==
    o.op = "alvar_get_multi_marker_poses" /\ Len(o.entries) = 1 /\ o.hideTextures /= <<>>

\* C15: with one texture configuration of 3 or 4 channels and the same scratch
\* texture, the buffer alvar_get_multi_marker_poses writes for one bundle is the buffer
\* alvar_get_poses writes for one marker with the first and third channel of every
\* pixel exchanged, the second channel and the alpha channel being the same (the two
\* calls made one after the other, in either order).
C15_ChannelSwapped ==
    [][ /\ (OneMarkerTextured(out) /\ OneBundleTextured(out') /\ channels \in {3, 4}) =>
              ChannelSwapped(out.hideTextures, out'.hideTextures)
        /\ (OneBundleTextured(out) /\ OneMarkerTextured(out') /\ channels \in {3, 4}) =>
              ChannelSwapped(out.hideTextures, out'.hideTextures)
      ]_vars

\* a texture of four pixels with alpha written for one bundle, one marker being
\* selected: the third scratch channel first, the alpha channel in place
C15_Witness ==
    /\ OneBundleTextured(out)
    /\ Len(foundMarkers) = 1
    /\ channels = 4
    /\ hide_texture_size = 16
    /\ out.hideTextures[4] = <<0, 6>>
    /\ out.hideTextures[6] = <<0, 4>>
    /\ out.hideTextures[7] = <<0, 7>>

\* C16: an alvar_set_marker_size call sets the size of the id in the first detector
\* and changes nothing else, whichever detector is active; in every state the second
\* detector holds no size for an id.
C16_OverridesOnFirstDetector ==
    [][ /\ out'.op = "alvar_set_marker_size" =>
              /\ out'.id \in DOMAIN markerDetector'.map_edge_length
              /\ markerDetector'.map_edge_length[out'.id] = out'.markerSize
              /\ \A k \in DOMAIN markerDetector'.map_edge_length :
                    k /= out'.id =>
                       /\ k \in DOMAIN markerDetector.map_edge_length
                       /\ markerDetector'.map_edge_length[k] = markerDetector.map_edge_length[k]
              /\ markerDetector'.markers = markerDetector.markers
              /\ markerDetector'.geometry = markerDetector.geometry
              /\ markerDetector2' = markerDetector2
              /\ UNCHANGED <<camVars, idTable, foundMarkers, curMaxTrackError, texVars,
                             calVars, multiMarkers, detect_additional, detector_id>>
        /\ markerDetector2'.map_edge_length = <<>>
      ]_vars

\* a size set for the id 7 while the second detector is active and holds a detection
\* result: the first detector has the size, the second none
C16_Witness ==
    /\ out.op = "alvar_set_marker_size"
    /\ out.id = 7
    /\ detector_id = 1
    /\ markerDetector2.markers = <<3, 7>>
    /\ markerDetector.map_edge_length = (3 :> 10) @@ (7 :> 20)
    /\ markerDetector2.map_edge_length = <<>>

\* the id-to-index table of the marker list ms: every id of ms, with the 0-based
\* index of the last marker carrying it
TableOf(ms) ==
    [id \in Range(ms) |->
        (CHOOSE i \in 1..Len(ms) : ms[i] = id /\ \A j \in (i + 1)..Len(ms) : ms[j] /= id) - 1]

NonActiveUnchanged ==
    IF detector_id = 0 THEN markerDetector2' = markerDetector2
    ELSE markerDetector' = markerDetector

\* C17 as claimed: an alvar_detect_marker call leaves the non-active detector's
\* detection result as it was, reports the size of the active detector's new result
\* and leaves in idTable the table of that new result.
C17_DetectOnActive_Claimed ==
    [][ out'.op = "alvar_detect_marker" =>
            /\ NonActiveUnchanged
            /\ out'.numFoundMarkers = Len(ActiveMarkers')
            /\ idTable' = TableOf(ActiveMarkers')
      ]_vars

\* C17 amended: an alvar_detect_marker call leaves the non-active detector's detection
\* result as it was and reports the size of the active detector's new result; when
\* that result is not empty and an id is requested, idTable is the table of the new
\* result, and otherwise idTable is left as it was.
C17_DetectOnActive ==
    [][ out'.op = "alvar_detect_marker" =>
            /\ NonActiveUnchanged
            /\ out'.numFoundMarkers = Len(ActiveMarkers')
            /\ idTable' = IF Len(ActiveMarkers') > 0 /\ Len(out'.interestedMarkerIDs) > 0
                          THEN TableOf(ActiveMarkers')
                          ELSE idTable
      ]_vars

\* a detection on the second detector that finds one marker, the first detector
\* keeping its result of two markers, the table being that of the one marker
C17_Witness ==
    /\ AfterDetect
    /\ detector_id = 1
    /\ markerDetector.markers = <<3, 7>>
    /\ markerDetector2.markers = <<3>>
    /\ out.numFoundMarkers = 1
    /\ Len(out.interestedMarkerIDs) > 0
    /\ idTable = (3 :> 0)

\* C18 as claimed: at every alvar_get_poses call each index held in foundMarkers is
\* an index into the marker list the call reads, that of the active detector.
C18_SelectionIndicesValid_Claimed ==
    out.op = "alvar_get_poses" =>
        \A k \in 1..Len(foundMarkers) :
            foundMarkers[k] >= 0 /\ foundMarkers[k] < Len(ActiveMarkers)

\* C19 as claimed: in every state, if calibration_started is false then pp holds no
\* observation.
C19_IdleAccumulatorEmpty_Claimed == ~calibration_started => pp = 0

\* what a call of the two-detector wrapper returned and wrote, without the notes the
\* model keeps on earlier calls
Visible(o) ==
    IF o.op = "alvar_get_camera_params" THEN [op |-> o.op, projMat |-> o.projMat]
    ELSE IF o.op = "alvar_add_multi_marker"
         THEN [op |-> o.op, parsed |-> o.parsed, format |-> o.format, ret |-> o.ret]
    ELSE IF o.op = "alvar_detect_marker"
         THEN [op |-> o.op, interestedMarkerIDs |-> o.interestedMarkerIDs,
               numFoundMarkers |-> o.numFoundMarkers,
               numInterestedMarkers |-> o.numInterestedMarkers]
    ELSE IF o.op = "alvar_get_multi_marker_poses"
         THEN [op |-> o.op, size |-> o.size, entries |-> o.entries, calls |-> o.calls,
               hideTextures |-> o.hideTextures]
    ELSE o

\* the session state the two wrappers have in common
Shared15 ==
    [cam |-> cam, cam_width |-> cam_width, cam_height |-> cam_height,
     markerDetector |-> markerDetector, multiMarkers |-> multiMarkers,
     hide_texture_size |-> hide_texture_size, channels |-> channels,
     idTable |-> idTable, foundMarkers |-> foundMarkers,
     detect_additional |-> detect_additional, curMaxTrackError |-> curMaxTrackError]

Shared13 ==
    [cam |-> wrapper13.cam, cam_width |-> wrapper13.cam_width,
     cam_height |-> wrapper13.cam_height,
     markerDetector |-> wrapper13.markerDetector, multiMarkers |-> wrapper13.multiMarkers,
     hide_texture_size |-> wrapper13.hide_texture_size, channels |-> wrapper13.channels,
     idTable |-> wrapper13.idTable, foundMarkers |-> wrapper13.foundMarkers,
     detect_additional |-> wrapper13.detect_additional,
     curMaxTrackError |-> wrapper13.curMaxTrackError]

\* C20: given the same sequence of calls of the entry points the two wrappers share,
\* the two-detector wrapper, with no detector selected but the first, returns and
\* writes what the single-detector wrapper returns and writes, and the session state
\* the two have in common is the same after every call.
C20_VariantsAgree ==
    /\ Shared15 = Shared13
    /\ out.op /= "alvar_select_detector" => Visible(out) = wrapper13.out

\* both wrappers having reported two bundles refined by DetectAdditional, with hide
\* textures, and holding a selection of two markers
C20_Witness ==
    /\ AfterGetMultiMarkerPoses
    /\ wrapper13.out.op = "alvar_get_multi_marker_poses"
    /\ Len(wrapper13.out.entries) = 2
    /\ Len(wrapper13.out.calls) = 2
    /\ wrapper13.out.hideTextures /= <<>>
    /\ wrapper13.foundMarkers = <<1, 0>>
    /\ wrapper13.markerDetector.markers = <<3, 7>>
    /\ wrapper13.markerDetector.map_edge_length /= <<>>

\* what C13 says of one alvar_init_camera call: o is what the call returned, with its
\* arguments, c the camera and width, height the stored resolution after it
InitCameraAsClaimed(o, c, width, height) ==
    /\ o.ret = 0 <=> (o.calibFile /= "NULL" /\ SetCalibOk(o.calibFile))
    /\ o.ret = 0 => c.calib = <<"file", o.calibFile>>
    /\ o.ret /= 0 => c.calib = <<"synthetic", o.width, o.height>>
    /\ c.x_res = o.width
    /\ c.y_res = o.height
    /\ width = o.width
    /\ height = o.height

\* C13: alvar_init_camera, in both wrappers, returns 0 exactly when a calibration file
\* is given and parses, and otherwise returns a non-zero value with the calibration
\* derived from the given width and height alone; either way the camera and the
\* stored resolution have the given width and height.
C13_InitCameraNeverFails ==
    out.op = "alvar_init_camera" =>
        /\ InitCameraAsClaimed(out, cam, cam_width, cam_height)
        /\ wrapper13.out.op = "alvar_init_camera"
        /\ InitCameraAsClaimed(wrapper13.out, wrapper13.cam, wrapper13.cam_width,
                               wrapper13.cam_height)

\* a file that does not parse given at the width 640 after a session at another
\* resolution: the fallback is signalled and the resolution is the given one
C13_Witness ==
    /\ out.op = "alvar_init_camera"
    /\ out.calibFile = "bad.xml"
    /\ out.ret /= 0
    /\ cam_width = 640
    /\ cam.calib = <<"synthetic", 640, 240>>
    /\ wrapper13.cam.calib = <<"synthetic", 640, 240>>
    /\ markerDetector.markers /= <<>>

\* the last call wrote hide textures: for n entries when it was alvar_get_poses with n
\* markers selected or alvar_get_multi_marker_poses with n bundles registered
WroteHideTextures ==
    /\ out.op \in {"alvar_get_poses", "alvar_get_multi_marker_poses"}
    /\ out.hideTextures /= <<>>

EntriesWritten ==
    IF out.op = "alvar_get_poses" THEN Len(out.ids) ELSE Len(out.entries)

\* every index written lies in the slice of the entry it was written for, and what
\* was written there was read inside the scratch texture
WithinSlices ==
    \A k \in DOMAIN out.hideTextures :
        LET entry == out.hideTextures[k][1]
            read == out.hideTextures[k][2]
        IN /\ entry >= 0
           /\ entry < EntriesWritten
           /\ k >= entry * hide_texture_size
           /\ k < (entry + 1) * hide_texture_size
           /\ read >= 0
           /\ read < hide_texture_size

\* C21 as claimed: with a texture of s >= 1 pixels a side and c >= 1 channels, a pose
\* call that writes hide textures for n entries writes only buffer indices below
\* n*s*s*c and reads only scratch indices below s*s*c, entry i within its slice.
C21_BufferBounds_Claimed == (WroteHideTextures /\ channels >= 1) => WithinSlices

\* C21 amended: the same for textures of c >= 3 channels (the copy loops write the
\* first three channels of every pixel whatever c is, and the fourth when c is 4).
C21_BufferBounds == (WroteHideTextures /\ channels >= 3) => WithinSlices

\* two markers hidden with a texture of four pixels and five channels: the second
\* entry starts at index 20 and its last write is the third channel of its last pixel
C21_Witness ==
    /\ WroteHideTextures
    /\ out.op = "alvar_get_poses"
    /\ Len(out.ids) = 2
    /\ channels = 5
    /\ hide_texture_size = 20
    /\ out.hideTextures[20] = <<1, 0>>
    /\ out.hideTextures[37] = <<1, 17>>
    /\ 38 \notin DOMAIN out.hideTextures

====
